---- MODULE Spec2Model ----
(***************************************************************************)
(* anidb-indexer: the content-addressable cache engine of src/indexer.rs.  *)
(*                                                                         *)
(* One process run is one call of index(): init_database and auth, the     *)
(* directory walk, one get_file / get_anime / get_episode / get_group      *)
(* round per discovered file, the prune loop and logout.  The SQLite       *)
(* database outlives the process, so the model runs index() again and      *)
(* again over a filesystem that the operator changes between runs (Spec).  *)
(* One call of ed2k_hash with its worker threads is modelled chunk by      *)
(* chunk on its own (HashSpec).                                            *)
(***************************************************************************)
EXTENDS Integers, Sequences, FiniteSets, TLC

(***************************************************************************)
(* The filesystem below the indexed root: two directories, file names,     *)
(* and file contents as byte sequences.                                    *)
(***************************************************************************)
Dirs == {"a", "b"}

Paths == {<<"a", "x">>, <<"b", "x">>, <<"a", "y">>}

\* the content of a path that has no file
NoFile == <<-1>>

Contents == {<<1>>, <<2>>, <<1, 1>>}

\* path.file_name()
FileName(p) == p[2]

\* path.metadata().size(), with unwrap_or_default() for a missing file
FileSize(c) == IF c = NoFile THEN 0 ELSE Len(c)

(***************************************************************************)
(* HashEngine.  MD4 is a free symbolic digest; the chunk size is scaled    *)
(* from 9,728,000 bytes down to 2.                                         *)
(***************************************************************************)
ED2K_CHUNK_SIZE == 2

Md4(data) == <<"md4", data>>

Min(a, b) == IF a < b THEN a ELSE b

\* chunking as "the full chunks, then the remainder", the remainder being
\* a chunk also when it is empty
par_chunks_with_remainder(bytes, n) ==
    LET full == Len(bytes) \div n
    IN  [i \in 1..full |-> SubSeq(bytes, (i - 1) * n + 1, i * n)]
        \o <<SubSeq(bytes, full * n + 1, Len(bytes))>>

\* slice::par_chunks: consecutive chunks, the last one possibly shorter,
\* none for an empty slice
RECURSIVE par_chunks(_, _)
par_chunks(bytes, n) ==
    IF Len(bytes) = 0 THEN <<>>
    ELSE <<SubSeq(bytes, 1, Min(n, Len(bytes)))>>
         \o par_chunks(SubSeq(bytes, Min(n, Len(bytes)) + 1, Len(bytes)), n)

\* the collected chunk digests, in chunk order
ChunkHashes(bytes) ==
    LET chunks == par_chunks(bytes, ED2K_CHUNK_SIZE)
    IN  [i \in 1..Len(chunks) |-> Md4(chunks[i])]

ed2k_hash(bytes) == Md4(ChunkHashes(bytes))

\* format!("{:032x}", u128::from_be_bytes(..)): the digest as 32 hex digits
FormatHex(digest) == <<"hex32", digest>>

(***************************************************************************)
(* MetadataService: the catalogue of the remote service.                   *)
(***************************************************************************)
RemoteFile(fid, aid, eid, gid, bytes) ==
    [fid |-> fid, aid |-> aid, eid |-> eid, gid |-> gid,
     size |-> Len(bytes), ed2k |-> FormatHex(ed2k_hash(bytes))]

RemoteFiles == {RemoteFile(1, 1, 1, 1, <<1>>), RemoteFile(2, 1, 2, 1, <<1, 1>>)}

\* file_by_ed2k(size, ed2k) of a healthy session: the records it can return
FileByEd2k(size, ed2k) == {f \in RemoteFiles : f.size = size /\ f.ed2k = ed2k}

Anime(aid) == [aid |-> aid, romaji_name |-> <<"anime", aid>>]

Episode(eid) == [eid |-> eid, epno |-> <<"ep", eid>>]

Group(gid) == [gid |-> gid, name |-> <<"group", gid>>]

(***************************************************************************)
(* The SQLite tables.                                                      *)
(***************************************************************************)
\* INSERT OR REPLACE on a table with an INTEGER PRIMARY KEY
InsertOrReplace(table, key, row) ==
    {r \in table : r[key] # row[key]} \cup {row}

\* SELECT * FROM <table> WHERE <key> = id
SelectById(table, key, id) == {r \in table : r[key] = id}

IndexedRow(p, size, fid) ==
    [path |-> p, filename |-> FileName(p), filesize |-> size, fid |-> fid]

\* INSERT OR REPLACE INTO indexed_files: path is the primary key and
\* UNIQUE (filename, filesize) ON CONFLICT REPLACE
InsertOrReplaceIndexed(table, row) ==
    {r \in table : /\ r.path # row.path
                   /\ ~(r.filename = row.filename /\ r.filesize = row.filesize)}
    \cup {row}

\* SelectIndexed that matches on the path alone
SelectIndexedByPath(table, p, size) == {r \in table : r.path = p}

\* SELECT fid, path FROM indexed_files
\*   WHERE path = ? OR (filename = ? AND filesize = ?)
SelectIndexed(table, p, size) ==
    {r \in table : \/ r.path = p
                   \/ (r.filename = FileName(p) /\ r.filesize = size)}

\* UpdatePathConflicts of a table whose path column is no key
UpdatePathUnchecked(table, old, new) == FALSE

\* UPDATE indexed_files SET path = new WHERE path = old; the primary key
\* rejects the update when another row already has the new path
UpdatePathConflicts(table, old, new) ==
    \E r \in table : r.path = new /\ old # new

UpdatePath(table, old, new) ==
    {IF r.path = old THEN [r EXCEPT !.path = new] ELSE r : r \in table}

EmptyDb ==
    [anime |-> {}, episodes |-> {}, files |-> {}, groups |-> {},
     indexed_files |-> {}]

VARIABLES
    fs,              \* the files on disk: path -> content, or NoFile
    conn,            \* the database: one set of rows per table
    pc,              \* where the process is
    files,           \* index(): the discovered file list
    idx,             \* index(): position of the for loop in files
    file,            \* index(): what get_file returned for files[idx]
    anime_name,      \* index(): the parts of the progress message
    episode_number,
    outcome,         \* how index() ended: "ok", "err" or "panic"
    logged_out,      \* anidb.logout() was called in this run
    ev,              \* what the last step did: hashing, remote calls, result
    processed,       \* history: the paths get_file was called on in this run
    healed,          \* history: the rows whose path this run updated, as found
    resolved,        \* history: what get_file last returned for a path since
                     \* the files on disk last changed, Unseen if nothing yet
    snapshot,        \* history: indexed_files and files as the previous run
                     \* left them, if that run completed its prune and
                     \* returned Ok and no file changed since; else None
    map,             \* ed2k_hash(): the bytes of the file being hashed
    hash_pc,         \* ed2k_hash(): "idle", "map", "chunks" or "done"
    hashes,          \* ed2k_hash(): the collected chunk digests, by position
    finished,        \* history: the chunk numbers in the order the worker
                     \* threads finished them
    root_hash        \* ed2k_hash(): the returned digest, NoHash if none

\* the variables of one call of ed2k_hash, computed chunk by chunk
hashvars == <<map, hash_pc, hashes, finished, root_hash>>

vars == <<fs, conn, pc, files, idx, file, anime_name, episode_number,
          outcome, logged_out, ev, processed, healed, resolved, snapshot,
          map, hash_pc, hashes, finished, root_hash>>

\* Option::None
None == [none |-> TRUE]

\* get_file has not returned for the path since the files last changed
Unseen == [unseen |-> TRUE]

NoEvent == [op |-> "none"]

\* a part of the progress message that is not set yet
NoName == <<>>

\* no digest: ed2k_hash has not returned Ok
NoHash == <<>>

\* the place of a chunk digest that no worker thread has delivered yet
Pending == <<"pending">>

\* .unwrap_or("Unknown") and .unwrap_or("??")
Unknown == <<"Unknown">>

UnknownEpno == <<"??">>

Init ==
    /\ fs \in [Paths -> Contents \cup {NoFile}]
    /\ conn = EmptyDb
    /\ pc = "start"
    /\ files = <<>>
    /\ idx = 0
    /\ file = None
    /\ anime_name = NoName
    /\ episode_number = NoName
    /\ outcome = "none"
    /\ logged_out = FALSE
    /\ ev = NoEvent
    /\ processed = <<>>
    /\ healed = {}
    /\ resolved = [p \in Paths |-> Unseen]
    /\ snapshot = None
    /\ map = <<>>
    /\ hash_pc = "idle"
    /\ hashes = <<>>
    /\ finished = <<>>
    /\ root_hash = NoHash

(***************************************************************************)
(* CachedFacade::get_file, as the set of ways one call can end.            *)
(*   ret    "ok" (Ok(value)), "err" (Err through ?) or "panic"             *)
(*   value  the ranidb::File returned, or None                             *)
(*   row    the row of indexed_files that query_row returned, or None      *)
(*   moved  the selected row's path was updated                            *)
(*   hashed / remote   ed2k_hash ran / file_by_ed2k was called             *)
(*   fault  what went wrong: "hash" (the file could not be mapped),        *)
(*          "remote" (file_by_ed2k failed, and not with 320), "store" (a   *)
(*          statement could not be executed), "conflict" (the UPDATE       *)
(*          violated the primary key)                                      *)
(***************************************************************************)
GetFileResult(db, ret, value, row, moved, hashed, remote, fault) ==
    [conn |-> db, ret |-> ret, value |-> value, row |-> row, moved |-> moved,
     hashed |-> hashed, remote |-> remote, fault |-> fault]

\* SELECT * FROM files WHERE fid = ? ... .ok()
SelectFile(db, fid) ==
    LET rows == SelectById(db.files, "fid", fid)
    IN  IF rows = {} THEN None ELSE CHOOSE r \in rows : TRUE

\* GetFileHit without the UPDATE of the row's path
GetFileHitNoUpdate(db, p, row) ==
    {GetFileResult(db, "ok", SelectFile(db, row.fid), row,
                   FALSE, FALSE, FALSE, "none")}

\* the branch taken when query_row returned `row`
GetFileHit(db, p, row) ==
    IF row.path # p
    THEN \* the UPDATE ... .unwrap()
         IF UpdatePathConflicts(db.indexed_files, row.path, p)
         THEN {GetFileResult(db, "panic", None, row, FALSE, FALSE, FALSE,
                             "conflict")}
         ELSE LET db1 == [db EXCEPT !.indexed_files = UpdatePath(@, row.path, p)]
              IN  {GetFileResult(db1, "ok", SelectFile(db1, row.fid), row,
                                 TRUE, FALSE, FALSE, "none"),
                   GetFileResult(db, "panic", None, row, FALSE, FALSE, FALSE,
                                 "store")}
    ELSE {GetFileResult(db, "ok", SelectFile(db, row.fid), row,
                        FALSE, FALSE, FALSE, "none")}

\* NotFoundResult with a negative cache: the unknown file is recorded
NotFoundRecorded(db, p, size) ==
    {GetFileResult([db EXCEPT !.indexed_files =
                      InsertOrReplaceIndexed(@, IndexedRow(p, size, 0))],
                   "ok", None, None, FALSE, TRUE, TRUE, "none")}

\* Err(ranidb::Error::AniDb(Other(320, _))) => return Ok(None)
NotFoundResult(db, p, size) ==
    {GetFileResult(db, "ok", None, None, FALSE, TRUE, TRUE, "none")}

\* GetFileMiss that stores the indexed_files row before the files row
GetFileMissIndexFirst(db, p, bytes) ==
    LET size  == Len(bytes)
        found == FileByEd2k(size, FormatHex(ed2k_hash(bytes)))
    IN  {GetFileResult(db, "err", None, None, FALSE, TRUE, FALSE, "hash"),
         GetFileResult(db, "panic", None, None, FALSE, TRUE, TRUE, "remote")}
        \cup (IF found = {} THEN NotFoundResult(db, p, size) ELSE {})
        \cup UNION {
              LET db1 == [db EXCEPT !.indexed_files =
                            InsertOrReplaceIndexed(@, IndexedRow(p, size, f.fid))]
                  db2 == [db1 EXCEPT !.files = InsertOrReplace(@, "fid", f)]
              IN  { GetFileResult(db2, "ok", f, None, FALSE, TRUE, TRUE, "none"),
                    GetFileResult(db, "panic", None, None, FALSE, TRUE, TRUE,
                                  "store"),
                    GetFileResult(db1, "panic", None, None, FALSE, TRUE, TRUE,
                                  "store") }
              : f \in found }

\* the branch taken when query_row returned no row
GetFileMiss(db, p, bytes) ==
    LET size  == Len(bytes)
        ed2k  == FormatHex(ed2k_hash(bytes))
        found == FileByEd2k(size, ed2k)
        \* ed2k_hash(..).context("failed to hash")?
        hashFailed ==
            {GetFileResult(db, "err", None, None, FALSE, TRUE, FALSE, "hash")}
        notFound == IF found = {} THEN NotFoundResult(db, p, size) ELSE {}
        \* e => panic!("failed to get file info")
        failed ==
            {GetFileResult(db, "panic", None, None, FALSE, TRUE, TRUE, "remote")}
        stored ==
            UNION {
              LET db1 == [db EXCEPT !.files = InsertOrReplace(@, "fid", f)]
                  db2 == [db1 EXCEPT !.indexed_files =
                            InsertOrReplaceIndexed(@, IndexedRow(p, size, f.fid))]
              IN  { GetFileResult(db2, "ok", f, None, FALSE, TRUE, TRUE, "none"),
                    \* .expect("failed to store file")
                    GetFileResult(db, "panic", None, None, FALSE, TRUE, TRUE,
                                  "store"),
                    \* .expect("failed to store indexed file")
                    GetFileResult(db1, "panic", None, None, FALSE, TRUE, TRUE,
                                  "store") }
              : f \in found }
    IN  hashFailed \cup notFound \cup failed \cup stored

\* query_row returns the first row of the result; the statement has no
\* ORDER BY, so that is any of the matching rows
get_file(db, fsys, p) ==
    LET size == FileSize(fsys[p])
        rows == SelectIndexed(db.indexed_files, p, size)
    IN  IF rows # {}
        THEN UNION {GetFileHit(db, p, row) : row \in rows}
        ELSE GetFileMiss(db, p, fsys[p])

(***************************************************************************)
(* simple_cache!: get_anime, get_episode and get_group.  `table` is the    *)
(* field of conn, `key` its primary key, `live` what the remote service    *)
(* returns for the id.                                                     *)
(*   ret    "ok" (Ok(value)) or "err" (Err through ?)                      *)
(*   remote the by-id fetch was called; answer is what it answered         *)
(*   fault  "store" when the INSERT OR REPLACE could not be executed       *)
(***************************************************************************)
CacheResult(db, ret, value, remote, answer, fault) ==
    [conn |-> db, ret |-> ret, value |-> value, remote |-> remote,
     answer |-> answer, fault |-> fault]

\* simple_cache whose SELECT has no WHERE clause
simple_cache_any_row(db, table, key, id, live) ==
    LET cached == db[table]
    IN  IF cached # {}
        THEN {CacheResult(db, "ok", CHOOSE r \in cached : TRUE, FALSE, "none",
                          "none")}
        ELSE {CacheResult(db, "err", None, TRUE, "notfound", "none"),
              CacheResult(db, "err", None, TRUE, "error", "none"),
              CacheResult(db, "err", None, TRUE, "ok", "store"),
              CacheResult([db EXCEPT ![table] = InsertOrReplace(@, key, live)],
                          "ok", live, TRUE, "ok", "none")}

\* simple_cache that stores a row before the fetch has answered
simple_cache_store_first(db, table, key, id, live) ==
    LET cached == SelectById(db[table], key, id)
        db1    == [db EXCEPT ![table] = InsertOrReplace(@, key, live)]
    IN  IF cached # {}
        THEN {CacheResult(db, "ok", CHOOSE r \in cached : TRUE, FALSE, "none",
                          "none")}
        ELSE {CacheResult(db1, "err", None, TRUE, "notfound", "none"),
              CacheResult(db1, "err", None, TRUE, "error", "none"),
              CacheResult(db, "err", None, TRUE, "ok", "store"),
              CacheResult(db1, "ok", live, TRUE, "ok", "none")}

simple_cache(db, table, key, id, live) ==
    LET cached == SelectById(db[table], key, id)
    IN  IF cached # {}
        THEN {CacheResult(db, "ok", CHOOSE r \in cached : TRUE, FALSE, "none",
                          "none")}
        ELSE { \* .context("failed to get info")?
               CacheResult(db, "err", None, TRUE, "notfound", "none"),
               CacheResult(db, "err", None, TRUE, "error", "none"),
               \* .context("failed to store item")?
               CacheResult(db, "err", None, TRUE, "ok", "store"),
               CacheResult([db EXCEPT ![table] = InsertOrReplace(@, key, live)],
                           "ok", live, TRUE, "ok", "none") }

get_anime(db, id) == simple_cache(db, "anime", "aid", id, Anime(id))

get_episode(db, id) == simple_cache(db, "episodes", "eid", id, Episode(id))

get_group(db, id) == simple_cache(db, "groups", "gid", id, Group(id))

(***************************************************************************)
(* The directory walk of index(): read_dir yields the entries of a         *)
(* directory in no particular order.                                       *)
(***************************************************************************)
Perms(S) ==
    {s \in [1..Cardinality(S) -> S] : \A i, j \in 1..Cardinality(S) :
                                        s[i] = s[j] => i = j}

RECURSIVE Flatten(_)
Flatten(ss) == IF ss = <<>> THEN <<>> ELSE Head(ss) \o Flatten(Tail(ss))

FilesIn(fsys, d) == {p \in Paths : p[1] = d /\ fsys[p] # NoFile}

\* WalkOrders of a walk that reads only the first directory it pops
WalkOrdersFirstDir(fsys) ==
    UNION {Perms(FilesIn(fsys, d)) : d \in Dirs}

WalkOrders(fsys) ==
    {Flatten([i \in 1..Cardinality(Dirs) |-> perDir[ds[i]]]) :
        ds \in Perms(Dirs),
        perDir \in {f \in [Dirs -> UNION {Perms(FilesIn(fsys, d)) : d \in Dirs}] :
                      \A d \in Dirs : f[d] \in Perms(FilesIn(fsys, d))}}

\* Path::exists
Exists(fsys, p) == p \in Paths /\ fsys[p] # NoFile

\* main(): the Result of index() is dropped and main returns Ok(());
\* a panic unwinds out of main
ExitCode(o) == IF o = "panic" THEN 101 ELSE 0

(***************************************************************************)
(* index(), one action per step between two awaits.                        *)
(***************************************************************************)
\* index() is over: it returned Ok(()), returned an Err, or panicked
Terminate(o) ==
    /\ pc' = "exited"
    /\ outcome' = o
    /\ files' = <<>>
    /\ idx' = 0
    /\ file' = None
    /\ anime_name' = NoName
    /\ episode_number' = NoName
    /\ processed' = <<>>
    /\ healed' = {}
    /\ snapshot' = IF o = "ok" THEN snapshot ELSE None

\* the end of one iteration of `for file_path in files`
NextFile ==
    /\ idx' = idx + 1
    /\ pc' = IF idx + 1 > Len(files) THEN "prune" ELSE "get_file"
    /\ file' = None
    /\ anime_name' = NoName
    /\ episode_number' = NoName
    /\ UNCHANGED <<files, outcome, snapshot>>

\* init_database(db_path)? and anidb.auth(..).expect("failed login")
Start ==
    /\ pc \in {"start", "exited"}
    /\ logged_out' = FALSE
    /\ \E r \in {"ok", "open failed", "login failed"} :
         /\ ev' = [op |-> "start", ret |-> r]
         /\ IF r = "ok"
            THEN /\ pc' = "discover"
                 /\ outcome' = "none"
                 /\ UNCHANGED <<files, idx, file, anime_name, episode_number,
                                processed, healed, snapshot>>
            ELSE Terminate(IF r = "open failed" THEN "err" ELSE "panic")
    /\ UNCHANGED <<fs, conn, resolved>>
    /\ UNCHANGED hashvars

\* while let Some(dir) = dirs.pop() { .. }
Discover ==
    /\ pc = "discover"
    /\ \E order \in WalkOrders(fs) :
         /\ files' = order
         /\ pc' = IF order = <<>> THEN "prune" ELSE "get_file"
    /\ idx' = 1
    /\ ev' = [op |-> "discover"]
    /\ UNCHANGED <<fs, conn, file, anime_name, episode_number, outcome,
                   logged_out, processed, healed, resolved, snapshot>>
    /\ UNCHANGED hashvars

\* facade.get_file(&file_path, &pb).await.context("failed to get file")?
\* The files on disk do not change while index() runs.
GetFile ==
    /\ pc = "get_file"
    /\ LET p == files[idx] IN
       \E r \in get_file(conn, fs, p) :
         /\ conn' = r.conn
         /\ ev' = [op |-> "get_file", path |-> p, ret |-> r.ret,
                   value |-> r.value, row |-> r.row, moved |-> r.moved,
                   hashed |-> r.hashed, remote |-> r.remote,
                   fault |-> r.fault, before |-> resolved[p]]
         /\ resolved' = IF r.ret = "ok"
                        THEN [resolved EXCEPT ![p] = r.value]
                        ELSE resolved
         /\ IF r.ret = "ok"
            THEN /\ processed' = Append(processed, p)
                 /\ healed' = IF r.moved
                              THEN healed \cup {r.row}
                              ELSE healed
                 /\ IF r.value # None
                    THEN /\ pc' = "get_anime"
                         /\ file' = r.value
                         /\ UNCHANGED <<files, idx, anime_name, episode_number,
                                        outcome, snapshot>>
                    ELSE NextFile
            ELSE Terminate(r.ret)
    /\ UNCHANGED <<fs, logged_out>>
    /\ UNCHANGED hashvars

\* GetAnime with a `?` on the result: let anime = ..get_anime(..).await?;
GetAnimeStrict ==
    /\ pc = "get_anime"
    /\ \E r \in get_anime(conn, file.aid) :
         /\ conn' = r.conn
         /\ ev' = [op |-> "get_anime", id |-> file.aid, ret |-> r.ret,
                   value |-> r.value, remote |-> r.remote, answer |-> r.answer,
                   fault |-> r.fault,
                   message |-> <<IF r.ret = "ok" THEN r.value.romaji_name
                                                ELSE Unknown>>]
         /\ IF r.ret = "ok"
            THEN /\ anime_name' = r.value.romaji_name
                 /\ pc' = "get_episode"
                 /\ UNCHANGED <<files, idx, file, episode_number, outcome,
                                processed, healed, snapshot>>
            ELSE Terminate("err")
    /\ UNCHANGED <<fs, logged_out, resolved>>
    /\ UNCHANGED hashvars

\* let anime = facade.get_anime(file.aid).await;
GetAnime ==
    /\ pc = "get_anime"
    /\ \E r \in get_anime(conn, file.aid) :
         /\ conn' = r.conn
         /\ anime_name' = IF r.ret = "ok" THEN r.value.romaji_name ELSE Unknown
         /\ ev' = [op |-> "get_anime", id |-> file.aid, ret |-> r.ret,
                   value |-> r.value, remote |-> r.remote, answer |-> r.answer,
                   fault |-> r.fault,
                   message |-> <<anime_name'>>]
    /\ pc' = "get_episode"
    /\ UNCHANGED <<fs, files, idx, file, episode_number, outcome, logged_out,
                   processed, healed, resolved, snapshot>>
    /\ UNCHANGED hashvars

\* let episode = facade.get_episode(file.eid).await;
GetEpisode ==
    /\ pc = "get_episode"
    /\ \E r \in get_episode(conn, file.eid) :
         /\ conn' = r.conn
         /\ episode_number' = IF r.ret = "ok" THEN r.value.epno ELSE UnknownEpno
         /\ ev' = [op |-> "get_episode", id |-> file.eid, ret |-> r.ret,
                   value |-> r.value, remote |-> r.remote, answer |-> r.answer,
                   fault |-> r.fault,
                   message |-> <<anime_name, episode_number'>>]
    /\ pc' = "get_group"
    /\ UNCHANGED <<fs, files, idx, file, anime_name, outcome, logged_out,
                   processed, healed, resolved, snapshot>>
    /\ UNCHANGED hashvars

\* let group = facade.get_group(file.gid).await; .. overall.inc(1);
GetGroup ==
    /\ pc = "get_group"
    /\ \E r \in get_group(conn, file.gid) :
         /\ conn' = r.conn
         /\ ev' = [op |-> "get_group", id |-> file.gid, ret |-> r.ret,
                   value |-> r.value, remote |-> r.remote, answer |-> r.answer,
                   fault |-> r.fault,
                   message |-> <<anime_name, episode_number,
                                 IF r.ret = "ok" THEN r.value.name ELSE Unknown>>]
    /\ NextFile
    /\ UNCHANGED <<fs, logged_out, processed, healed, resolved>>
    /\ UNCHANGED hashvars

\* MissingRows that also takes the rows whose file changed its size
MissingOrResizedRows(table, fsys) ==
    {r \in table : ~Exists(fsys, r.path) \/ FileSize(fsys[r.path]) # r.filesize}

\* the rows the prune loop deletes: those whose path is not on disk
MissingRows(table, fsys) == {r \in table : ~Exists(fsys, r.path)}

\* for path in indexed_files { if !Path::new(..).exists() { DELETE .. } }
Prune ==
    /\ pc = "prune"
    /\ LET missing == MissingRows(conn.indexed_files, fs) IN
       \/ /\ conn' = [conn EXCEPT !.indexed_files = @ \ missing]
          /\ ev' = [op |-> "prune", ret |-> "ok", deleted |-> missing]
          /\ pc' = "logout"
          /\ snapshot' = [indexed_files |-> conn'.indexed_files,
                          files |-> conn'.files]
          /\ UNCHANGED <<files, idx, file, anime_name, episode_number,
                         outcome, processed, healed>>
       \/ \* del_stmt.execute([path]).unwrap() fails on one of the rows
          \E done \in SUBSET missing :
            /\ done # missing
            /\ conn' = [conn EXCEPT !.indexed_files = @ \ done]
            /\ ev' = [op |-> "prune", ret |-> "panic", deleted |-> done]
            /\ Terminate("panic")
    /\ UNCHANGED <<fs, logged_out, resolved>>
    /\ UNCHANGED hashvars

\* anidb.logout().await.expect("failed logout"); Ok(())
Logout ==
    /\ pc = "logout"
    /\ logged_out' = TRUE
    /\ \E r \in {"ok", "panic"} :
         /\ ev' = [op |-> "logout", ret |-> r]
         /\ Terminate(r)
    /\ UNCHANGED <<fs, conn, resolved>>
    /\ UNCHANGED hashvars

\* Between two runs the operator creates, deletes or replaces a file.
FsChange ==
    /\ pc \in {"start", "exited"}
    /\ \E p \in Paths, c \in Contents \cup {NoFile} :
         /\ c # fs[p]
         /\ fs' = [fs EXCEPT ![p] = c]
         /\ resolved' = [q \in Paths |-> Unseen]
    /\ pc' = "start"
    /\ outcome' = "none"
    /\ logged_out' = FALSE
    /\ ev' = NoEvent
    /\ snapshot' = None
    /\ UNCHANGED <<conn, files, idx, file, anime_name, episode_number,
                   processed, healed>>
    /\ UNCHANGED hashvars

Next ==
    \/ Start
    \/ Discover
    \/ GetFile
    \/ GetAnime
    \/ GetEpisode
    \/ GetGroup
    \/ Prune
    \/ Logout
    \/ FsChange

Spec == Init /\ [][Next]_vars

(***************************************************************************)
(* One call of ed2k_hash, chunk by chunk.  rayon's worker threads digest   *)
(* the chunks in any order; collect() on the indexed parallel iterator     *)
(* puts each digest at the position of its chunk.  hashes.concat() joins   *)
(* 16-byte digests, so the sequence of digests stands for it.              *)
(***************************************************************************)
MaxFileLen == 5

Bytes == {1, 2}

\* the files ed2k_hash is called on: every byte sequence up to MaxFileLen
ByteSeqs == UNION {[1..n -> Bytes] : n \in 0..MaxFileLen}

\* collect() into a Vec that delivers the digests as the threads finish
CollectAsFinished(hs, i, digest) ==
    LET k == CHOOSE k \in DOMAIN hs :
                 hs[k] = Pending /\ \A j \in 1..(k - 1) : hs[j] # Pending
    IN  [hs EXCEPT ![k] = digest]

\* .collect() of an indexed parallel iterator: the digest of chunk i is
\* element i of the Vec
Collect(hs, i, digest) == [hs EXCEPT ![i] = digest]

HashInit ==
    /\ fs = [p \in Paths |-> NoFile]
    /\ conn = EmptyDb
    /\ pc = "start"
    /\ files = <<>>
    /\ idx = 0
    /\ file = None
    /\ anime_name = NoName
    /\ episode_number = NoName
    /\ outcome = "none"
    /\ logged_out = FALSE
    /\ ev = NoEvent
    /\ processed = <<>>
    /\ healed = {}
    /\ resolved = [p \in Paths |-> Unseen]
    /\ snapshot = None
    /\ map \in ByteSeqs
    /\ hash_pc = "map"
    /\ hashes = <<>>
    /\ finished = <<>>
    /\ root_hash = NoHash

mainvars == <<fs, conn, pc, files, idx, file, anime_name, episode_number,
              outcome, logged_out, ev, processed, healed, resolved, snapshot>>

\* let map = unsafe { Mmap::map(file) }?;  The mapping can fail for any
\* file; memmap refuses to map a file of length zero, and a build whose
\* mapping of an empty file succeeds goes on with no chunk at all.
MapFile ==
    /\ hash_pc = "map"
    /\ \/ /\ hash_pc' = "chunks"
          /\ hashes' = [i \in 1..Len(par_chunks(map, ED2K_CHUNK_SIZE)) |-> Pending]
       \/ /\ hash_pc' = "done"
          /\ hashes' = hashes
    /\ UNCHANGED <<map, finished, root_hash>>
    /\ UNCHANGED mainvars

\* .par_chunks(ED2K_CHUNK_SIZE).map(Md4::digest) .. .collect(): one worker
\* thread finishes one chunk, whichever
HashChunk ==
    /\ hash_pc = "chunks"
    /\ \E i \in DOMAIN hashes :
         /\ i \notin {finished[k] : k \in DOMAIN finished}
         /\ hashes' = Collect(hashes, i, Md4(par_chunks(map, ED2K_CHUNK_SIZE)[i]))
         /\ finished' = Append(finished, i)
    /\ UNCHANGED <<map, hash_pc, root_hash>>
    /\ UNCHANGED mainvars

\* let root_hash = Md4::digest(hashes.concat()); Ok(root_hash.into())
RootHash ==
    /\ hash_pc = "chunks"
    /\ Len(finished) = Len(hashes)
    /\ root_hash' = Md4(hashes)
    /\ hash_pc' = "done"
    /\ UNCHANGED <<map, hashes, finished>>
    /\ UNCHANGED mainvars

HashNext ==
    \/ MapFile
    \/ HashChunk
    \/ RootHash

HashSpec == HashInit /\ [][HashNext]_vars

(***************************************************************************)
(* Properties.                                                             *)
(***************************************************************************)
\* the four EntityCacheStore tables
EntityTables(db) == <<db.anime, db.episodes, db.files, db.groups>>

\* the file the for loop is at
CurrentPath == files[idx]

\* the step is a call of one of the three simple_cache! functions
ByIdStep == pc \in {"get_anime", "get_episode", "get_group"}

\* C1: if get_file returned a ContentRecord for a path and the file there
\* has not changed since, the next get_file on that path returns the same
\* record without hashing and without calling file_by_ed2k (unless the
\* database itself refuses a statement).
C1_CacheIdempotence ==
    [][ (pc = "get_file" /\ resolved[CurrentPath] \notin {Unseen, None})
          => \/ ev'.fault = "store"
             \/ /\ ev'.ret = "ok"
                /\ ev'.value = resolved[CurrentPath]
                /\ ~ev'.hashed
                /\ ~ev'.remote ]_vars

\* C7: a remote call that fails with anything but "no such entry" (the
\* login, file_by_ed2k, or a by-id fetch) ends the run at once: no further
\* file is processed and the prune step does not run.
C7_SessionFailureFatal ==
    [][ ( \/ (pc \in {"start", "exited"} /\ ev'.op = "start"
                                        /\ ev'.ret = "login failed")
          \/ (pc = "get_file" /\ ev'.fault = "remote")
          \/ (ByIdStep /\ ev'.answer = "error") )
          => (pc' = "exited" /\ outcome' \in {"err", "panic"}) ]_vars

\* C10: when index() ends on an error after the login, the process exits
\* with a non-zero code and logout has been attempted.
C10_ErrorPropagation ==
    (pc = "exited" /\ outcome \in {"err", "panic"} /\ ev.op # "start")
      => (ExitCode(outcome) # 0 /\ logged_out)

\* the rows of files that moved to p: same name and size, their own path
\* gone from disk, and no row for p yet
MovedFrom(p) ==
    {e \in conn.indexed_files :
        /\ e.filename = FileName(p)
        /\ e.filesize = FileSize(fs[p])
        /\ e.path # p
        /\ fs[e.path] = NoFile
        /\ \A o \in conn.indexed_files : o.path # p}

C3_Prune ==
    [][ pc = "prune" =>
          LET before == conn.indexed_files
              after  == conn'.indexed_files
          IN  /\ pc' = "logout" => after = {e \in before : fs[e.path] # NoFile}
              /\ after \subseteq before
              /\ \A e \in before \ after : fs[e.path] = NoFile
              /\ EntityTables(conn') = EntityTables(conn)
              /\ \A e \in before \ after : SelectFile(conn', e.fid) # None ]_vars

\* C3 witness: a prune has just completed that deleted a row and kept
\* another, and the ContentRecord of the deleted row is still stored.
C3_Witness ==
    /\ pc = "logout"
    /\ ev.op = "prune"
    /\ ev.deleted # {}
    /\ conn.indexed_files # {}
    /\ \A e \in ev.deleted : SelectFile(conn, e.fid) # None

\* no two rows share a path, no two rows share (filename, filesize)
UniqueRows(table) ==
    \A r1, r2 \in table :
        /\ r1.path = r2.path => r1 = r2
        /\ (r1.filename = r2.filename /\ r1.filesize = r2.filesize) => r1 = r2

\* C6: indexed_files never holds two rows with the same path nor two rows
\* with the same (filename, filesize); and INSERT OR REPLACE of any row
\* into the table a run leaves behind makes the new row the only one with
\* its path and the only one with its (filename, filesize), deleting no
\* other row.
C6_IndexUniqueness ==
    /\ UniqueRows(conn.indexed_files)
    /\ pc = "exited" => \A p \in Paths, c \in Contents, f \in RemoteFiles :
         LET row   == IndexedRow(p, FileSize(c), f.fid)
             after == InsertOrReplaceIndexed(conn.indexed_files, row)
         IN  /\ row \in after
             /\ UniqueRows(after)
             /\ \A r \in conn.indexed_files \ after :
                  \/ r.path = p
                  \/ (r.filename = row.filename /\ r.filesize = row.filesize)

\* C6 witness: a lookup has just rewritten the path of a row while the
\* table holds another row of the same size.
C6_Witness ==
    /\ ev.op = "get_file"
    /\ ev.moved
    /\ \E r1, r2 \in conn.indexed_files :
         r1 # r2 /\ r1.filesize = r2.filesize /\ r1.path = ev.path

\* what get_file looks up for the file the loop is at
CurrentRows ==
    SelectIndexed(conn.indexed_files, CurrentPath, FileSize(fs[CurrentPath]))

\* the remote service does not know the file the loop is at
CurrentUnknown ==
    FileByEd2k(FileSize(fs[CurrentPath]),
               FormatHex(ed2k_hash(fs[CurrentPath]))) = {}

\* C4 as claimed: when the lookup misses and the service answers "no such
\* file", get_file returns None, writes nothing and the run goes on; and
\* every later get_file of that file (the files on disk unchanged) hashes
\* it again, asks the service again and returns None again.
C4_UnknownFileAlways ==
    [][ pc = "get_file" =>
          /\ (CurrentRows = {} /\ CurrentUnknown /\ ev'.ret = "ok") =>
                /\ ev'.value = None
                /\ conn' = conn
                /\ pc' \in {"get_file", "prune"}
          /\ (resolved[CurrentPath] = None /\ ev'.ret = "ok") =>
                /\ ev'.hashed
                /\ ev'.remote
                /\ ev'.value = None ]_vars

\* C4 as amended: when the lookup misses and the service does not know the
\* file, get_file hashes the file and, unless hashing or the session fails,
\* asks the service and returns None; nothing is written, so the same
\* lookup still misses afterwards, and the run goes on with the next file.
\* The same holds of every later get_file of that file whose lookup misses.
C4_UnknownFile ==
    [][ (pc = "get_file" /\ CurrentRows = {}
           /\ (CurrentUnknown \/ resolved[CurrentPath] = None)) =>
          /\ ev'.hashed
          /\ conn' = conn
          /\ SelectIndexed(conn'.indexed_files, CurrentPath,
                           FileSize(fs'[CurrentPath])) = {}
          /\ ev'.ret = "ok" =>
                /\ ev'.remote
                /\ ev'.value = None
                /\ outcome' = "none"
                /\ pc' = IF idx < Len(files) THEN "get_file" ELSE "prune" ]_vars

\* C4 witness: get_file has hashed an unknown file again and returned None
\* again, after it had already returned None for it.
C4_Witness ==
    /\ ev.op = "get_file"
    /\ ev.before = None
    /\ ev.ret = "ok"
    /\ ev.value = None
    /\ ev.hashed
    /\ ev.remote

\* the table, key, id and remote entity of the simple_cache! call at pc
ByIdTable ==
    CASE pc = "get_anime" -> "anime" [] pc = "get_episode" -> "episodes"
      [] OTHER -> "groups"

ByIdKey ==
    CASE pc = "get_anime" -> "aid" [] pc = "get_episode" -> "eid"
      [] OTHER -> "gid"

ByIdLive ==
    CASE pc = "get_anime" -> Anime(file.aid)
      [] pc = "get_episode" -> Episode(file.eid)
      [] OTHER -> Group(file.gid)

TableNames == {"anime", "episodes", "files", "groups", "indexed_files"}

\* C5: get_anime, get_episode and get_group return the stored row of the id
\* without a remote call and without a write when there is one; otherwise
\* they call the remote fetch, and either return the fetched entity after
\* storing it under its id (no other row and no other table changes), or
\* return the failure with the database unchanged.
C5_GetOrFetch ==
    [][ ByIdStep =>
          LET stored == {r \in conn[ByIdTable] : r[ByIdKey] = ByIdLive[ByIdKey]}
          IN  /\ stored # {} =>
                    /\ ev'.ret = "ok"
                    /\ ev'.value \in stored
                    /\ ~ev'.remote
                    /\ conn' = conn
              /\ stored = {} =>
                    /\ ev'.remote
                    /\ ev'.ret = "ok" =>
                          /\ ev'.answer = "ok"
                          /\ ev'.value = ByIdLive
                          /\ conn'[ByIdTable] = conn[ByIdTable] \cup {ByIdLive}
                          /\ \A t \in TableNames \ {ByIdTable} :
                                conn'[t] = conn[t]
                    /\ ev'.answer # "ok" => ev'.ret = "err"
                    /\ ev'.ret = "err" => conn' = conn ]_vars

\* C5 witness: get_episode has just answered from the episodes table while
\* the table holds the rows of two ids, both stored after a remote fetch.
C5_Witness ==
    /\ ev.op = "get_episode"
    /\ ~ev.remote
    /\ ev.ret = "ok"
    /\ ev.value \in conn.episodes
    /\ Cardinality(conn.episodes) = 2

\* C8: when the remote service answers "no such entry" for the anime,
\* episode or group of a resolved file, nothing is stored, the progress
\* message shows "Unknown" ("??" for the episode number) for it, and the
\* loop goes on: to the next call for this file, to the next file, or to
\* the prune step after the last file.  Prune is reached only with every
\* discovered file processed.
C8_RelatedNotFound ==
    /\ [][ (ByIdStep /\ ev'.answer = "notfound") =>
             /\ conn' = conn
             /\ ev'.ret = "err"
             /\ outcome' = "none"
             /\ files' = files
             /\ pc = "get_anime" =>
                   /\ ev'.message = <<Unknown>>
                   /\ anime_name' = Unknown
                   /\ pc' = "get_episode" /\ idx' = idx
             /\ pc = "get_episode" =>
                   /\ ev'.message = <<anime_name, UnknownEpno>>
                   /\ episode_number' = UnknownEpno
                   /\ pc' = "get_group" /\ idx' = idx
             /\ pc = "get_group" =>
                   /\ ev'.message = <<anime_name, episode_number, Unknown>>
                   /\ idx' = idx + 1
                   /\ pc' = IF idx < Len(files) THEN "get_file" ELSE "prune"
         ]_vars
    /\ [](pc = "prune" => processed = files)

\* C8 witness: the group of the last of several files was not found, its
\* anime was not found either, and the run is at the prune step.
C8_Witness ==
    /\ ev.op = "get_group"
    /\ ev.answer = "notfound"
    /\ ev.message[1] = Unknown
    /\ pc = "prune"
    /\ Len(files) > 1
    /\ processed = files

\* the steps of the Process phase, and the files a walk has to find
ProcessSteps == {"get_file", "get_anime", "get_episode", "get_group"}

OnDisk == {p \in Paths : fs[p] # NoFile}

\* C9: the steps of a run follow discover, process, prune, done.  The file
\* list is complete and without duplicates from the first get_file on, no
\* get_file happens before, the loop has called get_file once on each file
\* before its position, prune starts only when every file was processed,
\* and only the prune step removes rows from indexed_files.
C9_PhaseOrder ==
    /\ [][ /\ pc \in {"start", "exited"} => pc' \in {"start", "discover", "exited"}
           /\ pc = "discover" =>
                pc' = IF files' = <<>> THEN "prune" ELSE "get_file"
           /\ pc \in ProcessSteps =>
                /\ pc' \in ProcessSteps \cup {"prune", "exited"}
                /\ pc' = "prune" => idx = Len(files)
           /\ pc = "prune" => pc' \in {"logout", "exited"}
           /\ pc = "logout" => pc' = "exited"
           /\ pc # "prune" =>
                Cardinality(conn'.indexed_files) >= Cardinality(conn.indexed_files)
         ]_vars
    /\ [](pc \in {"start", "discover"} => processed = <<>>)
    /\ [](pc \in ProcessSteps \cup {"prune"} =>
            /\ {files[i] : i \in 1..Len(files)} = OnDisk
            /\ Len(files) = Cardinality(OnDisk))
    /\ [](pc \in ProcessSteps =>
            /\ idx \in 1..Len(files)
            /\ processed = SubSeq(files, 1, IF pc = "get_file" THEN idx - 1 ELSE idx))
    /\ [](pc \in {"prune", "logout"} => processed = files)

\* C9 witness: three files were discovered and processed, and the prune
\* step is over.
C9_Witness ==
    /\ pc = "logout"
    /\ Len(processed) = 3
    /\ ev.op = "prune"

\* C11: a statement that writes the database and cannot be executed (the
\* INSERT of a fetched file, of its indexed_files row, of a fetched anime,
\* episode or group, or the UPDATE of a row's path) ends the run at that
\* step: no later file is processed and the prune step does not run.
C11_StoreFailureFatal ==
    [][ ((pc = "get_file" \/ ByIdStep) /\ ev'.fault = "store")
          => (pc' = "exited" /\ outcome' \in {"err", "panic"}) ]_vars

\* the previous step stored what it fetched for the file the loop is at
WroteForFile ==
    /\ ev.op \in {"get_file", "get_anime", "get_episode"}
    /\ ev.remote
    /\ ev.ret = "ok"

\* every row of the entity tables is the remote entity of its id, one row
\* per id, and indexed_files has one row per path and per (filename, size)
ValidStore(db) ==
    /\ UniqueRows(db.indexed_files)
    /\ db.files \subseteq RemoteFiles
    /\ \A f1, f2 \in db.files : f1.fid = f2.fid => f1 = f2
    /\ \A a \in db.anime : a = Anime(a.aid)
    /\ \A e \in db.episodes : e = Episode(e.eid)
    /\ \A g \in db.groups : g = Group(g.gid)

\* C12 as claimed: the rows of a file are written only after all remote
\* calls of that file have succeeded, so no remote call made for a file
\* after a row was stored for it fails; and the store is valid in every
\* state.
C12_WritesAfterAllRemoteCalls ==
    /\ [][ (ByIdStep /\ WroteForFile) => ev'.answer \in {"none", "ok"} ]_vars
    /\ [] ValidStore(conn)

\* C12 as amended: every row a step writes is written after the remote
\* call of that step that returned it has succeeded (the files row and the
\* indexed_files row after file_by_ed2k, an anime, episode or group row
\* after its by-id fetch), a step whose remote call failed writes nothing,
\* and the store is valid in every state, also after a run that ended at
\* any step.
C12_PartialRunValidity ==
    /\ [][ /\ pc = "get_file" =>
                LET p     == CurrentPath
                    size  == FileSize(fs[p])
                    found == FileByEd2k(size, FormatHex(ed2k_hash(fs[p])))
                IN  /\ conn'.files # conn.files =>
                          /\ ev'.remote
                          /\ \E f \in found :
                                conn'.files = InsertOrReplace(conn.files, "fid", f)
                    /\ \A r \in conn'.indexed_files \ conn.indexed_files :
                          \/ ev'.moved /\ r = [ev'.row EXCEPT !.path = p]
                          \/ /\ ev'.remote
                             /\ \E f \in found : /\ r = IndexedRow(p, size, f.fid)
                                                  /\ f \in conn'.files
                    /\ ev'.fault = "remote" => conn' = conn
                    /\ conn'.anime = conn.anime
                    /\ conn'.episodes = conn.episodes
                    /\ conn'.groups = conn.groups
           /\ ByIdStep =>
                /\ conn' # conn =>
                      /\ ev'.answer = "ok"
                      /\ conn'[ByIdTable] = conn[ByIdTable] \cup {ByIdLive}
                /\ ev'.answer \in {"notfound", "error"} => conn' = conn
          ]_vars
    /\ [] ValidStore(conn)

\* C12 witness: a run has ended between the two writes of get_file: the
\* fetched file is stored, its indexed_files row is not, and the index
\* holds rows of earlier files.
C12_Witness ==
    /\ pc = "exited"
    /\ outcome = "panic"
    /\ ev.op = "get_file"
    /\ ev.fault = "store"
    /\ conn.indexed_files # {}
    /\ \E f \in conn.files : \A r \in conn.indexed_files : r.fid # f.fid

\* ed2k_hash has returned Ok
Hashed == hash_pc = "done" /\ root_hash # NoHash

\* C13: whatever the order in which the worker threads finish the chunks,
\* ed2k_hash returns the digest of the chunk digests in chunk order: element
\* i of the collected digests is the digest of chunk i, and the result is
\* the same function of the bytes alone.
C13_HashDeterminism ==
    /\ \A k \in DOMAIN finished :
          hashes[finished[k]] = Md4(par_chunks(map, ED2K_CHUNK_SIZE)[finished[k]])
    /\ Hashed => root_hash = ed2k_hash(map)

\* C13 witness: a hash of three chunks with different bytes has returned,
\* and the last chunk was finished first.
C13_Witness ==
    /\ Hashed
    /\ Len(finished) = 3
    /\ finished[1] = 3
    /\ hashes[1] # hashes[2]

\* the number of chunks of a file of n bytes: n / chunk size, rounded up
CeilChunks(n) == (n + ED2K_CHUNK_SIZE - 1) \div ED2K_CHUNK_SIZE

\* bytes (i-1) * chunk size + 1 .. i * chunk size of the file, cut at its end
ChunkBytes(i) ==
    SubSeq(map, (i - 1) * ED2K_CHUNK_SIZE + 1, Min(i * ED2K_CHUNK_SIZE, Len(map)))

\* C14: once the file is mapped, the digests to collect are as many as the
\* file length divided by the chunk size, rounded up: length / chunk size
\* for an exact multiple, with no digest of an empty trailing chunk.  Digest
\* i is the digest of the bytes of chunk i as they are, the last chunk not
\* padded, and the outer digest is fed exactly these digests.
C14_ChunkBoundary ==
    (hash_pc = "chunks" \/ Hashed) =>
      /\ Len(hashes) = CeilChunks(Len(map))
      /\ (Len(map) > 0 /\ Len(map) % ED2K_CHUNK_SIZE = 0) =>
            Len(hashes) = Len(map) \div ED2K_CHUNK_SIZE
      /\ \A k \in DOMAIN finished :
            /\ hashes[finished[k]] = Md4(ChunkBytes(finished[k]))
            /\ hashes[finished[k]] # Md4(<<>>)
      /\ Hashed => root_hash = Md4([i \in 1..CeilChunks(Len(map)) |->
                                      Md4(ChunkBytes(i))])

\* C14 witness: the hash of a file of exactly two chunk sizes has returned.
C14_Witness ==
    /\ Hashed
    /\ Len(map) = 2 * ED2K_CHUNK_SIZE
    /\ Len(hashes) = 2

\* C15: for a file shorter than the chunk size, the empty file included,
\* ed2k_hash returns the digest of the one digest of the file's bytes.  (A
\* file that has bytes and cannot be mapped is an I/O failure and not meant.)
C15_SingleChunkDoubleHash ==
    (hash_pc = "done" /\ Len(map) < ED2K_CHUNK_SIZE
       /\ (Hashed \/ Len(map) = 0))
      => root_hash = Md4(<<Md4(map)>>)

\* the rows that match the file at p by (filename, filesize) while the index
\* has no row for the path p
NameSizeMatches(p) ==
    {e \in conn.indexed_files :
        /\ e.filename = FileName(p)
        /\ e.filesize = FileSize(fs[p])
        /\ \A o \in conn.indexed_files : o.path # p}

\* the remote service knows the content of the file at p as record f
ContentIs(p, f) ==
    f \in FileByEd2k(FileSize(fs[p]), FormatHex(ed2k_hash(fs[p])))

\* C16: when the index has no row for the path of a file but a row with
\* the file's name and size, get_file returns the files record of that row,
\* whatever the bytes of the file are, without hashing the file and without
\* a remote call (unless the database refuses the UPDATE of the path).
C16_TrustTheMatch ==
    [][ pc = "get_file" =>
          \A e \in NameSizeMatches(CurrentPath) :
             \/ ev'.fault = "store"
             \/ /\ ev'.ret = "ok"
                /\ ev'.row = e
                /\ ev'.value \in conn.files
                /\ ev'.value.fid = e.fid
                /\ ~ev'.hashed
                /\ ~ev'.remote ]_vars

\* C16 witness: get_file has just answered a file from a row recorded under
\* another path, and the record it returned is not the one the remote
\* service has for the bytes of the file.
C16_Witness ==
    /\ ev.op = "get_file"
    /\ ev.ret = "ok"
    /\ ev.moved
    /\ ~ev.hashed
    /\ ev.value # None
    /\ ~ContentIs(ev.path, ev.value)

\* C17: in every state, also after a run that ended at any step, the fid
\* of every indexed_files row has a row in files; and a get_file that found
\* a row in indexed_files and returned returns the files row of that fid,
\* never None.
C17_ReferentialInvariant ==
    /\ [](\A r \in conn.indexed_files : SelectFile(conn, r.fid) # None)
    /\ [][ (pc = "get_file" /\ ev'.row # None /\ ev'.ret = "ok") =>
             /\ ev'.value # None
             /\ ev'.value \in conn.files
             /\ ev'.value.fid = ev'.row.fid ]_vars

\* C17 witness: a run has ended by panic, the index holds two rows, and a
\* file fetched earlier has lost its row.
C17_Witness ==
    /\ pc = "exited"
    /\ outcome = "panic"
    /\ Cardinality(conn.indexed_files) = 2
    /\ \E f \in conn.files : \A r \in conn.indexed_files : r.fid # f.fid

C19_HitSizeConsistent ==
    [][ (pc = "get_file" /\ ev'.row # None /\ ev'.ret = "ok")
          => ev'.row.filesize = FileSize(fs[CurrentPath]) ]_vars

\* no two files on disk have the same name and the same size
NoTwins ==
    \A p, q \in OnDisk :
        (FileName(p) = FileName(q) /\ FileSize(fs[p]) = FileSize(fs[q])) => p = q

\* C20: a run that completes its prune after a run that completed and
\* returned Ok, with no file changed in between, leaves indexed_files and
\* files as the run before left them.  (Stated for the two tables that
\* depend on file_by_ed2k only, whose answers are fixed, and for trees
\* without two files of the same name and size, where the order of the walk
\* cannot matter.)
C20_ReconciliationIdempotent ==
    [][ (pc = "prune" /\ pc' = "logout" /\ snapshot # None /\ NoTwins)
          => snapshot' = snapshot ]_vars

====
